---- MODULE Spec2Model ----
(***************************************************************************)
(* A model of ib-api/ib_client.py: the IBClient class, which caches the    *)
(* account data streamed by the IB Gateway and supervises the background   *)
(* thread that runs the vendor session's message loop.                     *)
(*                                                                         *)
(* Threads of control:                                                     *)
(*   - the worker threads created by start() (threading.Thread(target=run))*)
(*     on which every EWrapper callback executes;                          *)
(*   - one lifecycle caller, which calls start() and stop();               *)
(*   - the readers, which call get_account_summary().                      *)
(* The vendor session (EClient) is the environment: it accepts connect,    *)
(* disconnect and reqAccountUpdates, and hands messages to the worker.     *)
(***************************************************************************)
EXTENDS Integers, Sequences, FiniteSets, TLC

\* ------------------------------------------------------------------ bounds

\* Worker threads start() may create in one run of the model.
MaxWorkers == 2

\* Callbacks the worker applies in the cache-ordering specification.
MaxEvents == 4

\* ----------------------------------------------------------- input domains

\* Thread identities (the owner recorded for the lock).
WorkerIds == 1..MaxWorkers
Readers == {"r1"}
FreeLock == <<"free", 0>>
WorkerThread(w) == <<"worker", w>>
ReaderThread(r) == <<"reader", r>>

\* self._thread is None
None == 0

\* self._last_error is None
NoError == <<>>

\* No message in flight on a worker.
NoMsg == [kind |-> "none"]

\* Contracts of updatePortfolio: three (symbol, secType) identities, each on
\* two (exchange, currency) listings.
Listings == {<<"SMART", "USD">>, <<"NYSE", "EUR">>}
ContractIds == {<<"AAPL", "STK">>, <<"AAPL", "OPT">>, <<"MSFT", "STK">>}
Contracts ==
    {[symbol |-> c[1], secType |-> c[2], exchange |-> l[1], currency |-> l[2]] :
        c \in ContractIds, l \in Listings}

\* Decimal quantities of updatePortfolio, in whole units; float() of them
\* compares equal to 0 exactly for the quantity 0.
Quantities == {0, 5, 7}
FloatOfDecimal(q) == q

PortfolioMsgs ==
    {[kind |-> "updatePortfolio", contract |-> c, position |-> q,
      marketPrice |-> 10, marketValue |-> 10 * q, averageCost |-> 9,
      unrealizedPNL |-> q, realizedPNL |-> 0, accountName |-> "DU1"] :
        c \in Contracts, q \in Quantities}

\* The value strings of updateAccountValue and what float() makes of them:
\* float() raises ValueError on a string that is no number, and otherwise
\* gives the number (here in hundredths).
IsNumeric(s) == s \in {"0", "0.00", "50", "100", "100.50"}
FloatOfStr(s) ==
    CASE s = "0" -> 0
      [] s = "0.00" -> 0
      [] s = "50" -> 5000
      [] s = "100" -> 10000
      [] s = "100.50" -> 10050

\* settings.trading_mode
TradingMode == "paper"

\* key_metrics of get_account_summary, in its order.
KeyMetrics ==
    <<"NetLiquidation", "TotalCashValue", "BuyingPower", "AvailableFunds",
      "GrossPositionValue", "MaintMarginReq", "UnrealizedPnL", "RealizedPnL">>

AccountValueMsg(key, val, currency, accountName) ==
    [kind |-> "updateAccountValue", key |-> key, val |-> val,
     currency |-> currency, accountName |-> accountName]

\* updateAccountValue inputs for the headline metrics: one metric in five
\* currencies (one of them the empty code), another in two.
SummaryMsgs ==
    {AccountValueMsg("NetLiquidation", cv[2], cv[1], "DU1") :
        cv \in {<<"USD", "100">>, <<"BASE", "50">>, <<"EUR", "100.50">>,
                 <<"GBP", "0">>, <<"", "0.00">>}}
    \cup {AccountValueMsg("RealizedPnL", cv[2], cv[1], "DU1") :
        cv \in {<<"USD", "50">>, <<"", "100">>}}
    \cup {AccountValueMsg("AccountType", "INDIVIDUAL", "", "DU1")}

AccountTimeMsg(timeStamp) == [kind |-> "updateAccountTime", timeStamp |-> timeStamp]

\* A mixed stream for the ordering of callbacks and reads: values of two
\* metrics under two account names, a position opened and closed, two times.
CacheMsgs ==
    {AccountValueMsg("NetLiquidation", "100", "USD", "DU1"),
     AccountValueMsg("NetLiquidation", "50", "BASE", "DU2"),
     AccountValueMsg("CashBalance", "50", "USD", "DU1"),
     AccountTimeMsg("10:00"), AccountTimeMsg("10:01")}
    \cup {m \in PortfolioMsgs :
            /\ m.contract.symbol = "AAPL" /\ m.contract.secType = "STK"
            /\ m.contract.exchange = "SMART" /\ m.position \in {0, 5}}

\* A variant of info_codes without the code 2107.
info_codes_without_2107 == {2104, 2106, 2158}

\* info_codes of the error callback.
info_codes == {2104, 2106, 2158, 2107}

ErrorMsg(errorCode, errorString) ==
    [kind |-> "error", reqId |-> -1, errorCode |-> errorCode,
     errorString |-> errorString]

\* Error callbacks: the four notices of info_codes and two operational errors.
ErrorMsgs ==
    {ErrorMsg(2104, "Market data farm connection is OK"),
     ErrorMsg(2106, "HMDS data farm connection is OK"),
     ErrorMsg(2107, "HMDS data farm connection is inactive"),
     ErrorMsg(2158, "Sec-def data farm connection is OK"),
     ErrorMsg(502, "Couldn't connect to TWS"),
     ErrorMsg(1100, "Connectivity between IB and TWS has been lost")}

\* What decides the life cycle of a connection: the acknowledgement and the
\* end of the initial download.
LifeMsgs ==
    {[kind |-> "nextValidId", orderId |-> 1],
     [kind |-> "accountDownloadEnd", accountName |-> "DU1"]}

\* ---------------------------------------------------------------- state

VARIABLES
    lock,            \* self._lock: FreeLock or the thread holding it
    connected,       \* self._connected (threading.Event)
    account_ready,   \* self._account_ready (threading.Event)
    thread,          \* self._thread: None or a worker id
    account_values,  \* self._account_values: key -> insertion-ordered dict,
                     \*   a sequence of <<currency, value>> pairs
    positions,       \* self._positions
    account_name,    \* self._account_name
    account_time,    \* self._account_time
    next_order_id,   \* self._next_order_id
    last_error,      \* self._last_error (NoError when None)
    sessionLive,     \* EClient.isConnected()
    subscribed,      \* the gateway streams account updates to this session
    ackPending,      \* the gateway has not yet sent nextValidId on this connection
    wpc,             \* per worker thread: where it is
    wmsg,            \* per worker thread: the message its callback is handling
    cpc,             \* lifecycle caller: where it is
    cop              \* lifecycle caller: bookkeeping of its calls
VARIABLES
    rpc,             \* per reader: where it is in get_account_summary
    rtmp,            \* per reader: locals of get_account_summary
    rres,            \* per reader: the last result returned
    client,          \* the global _client is set (init_ib_client has run)
    hres,            \* the last response of GET /health
    ares             \* per reader: the last response of its account endpoint
\* History variables: they record what happened and influence nothing.
VARIABLES
    lastApplied,     \* the last portfolio callback applied, with the list before it
    delivered,       \* the events handed to callbacks, in the order of the calls
    nApplied,        \* number of callbacks applied to the cache
    rsnap,           \* per reader: the cache when get_account_summary took the lock
    rseen,           \* per reader: nApplied at its previous and at its last read
    callHist,        \* the lifecycle calls: commands issued, results, state left
    sessHist         \* the session: acknowledged; error, data seen since start()

clientVars == <<lock, connected, account_ready, thread, account_values, positions,
                account_name, account_time, next_order_id, last_error>>
sessionVars == <<sessionLive, subscribed, ackPending>>
workerVars == <<wpc, wmsg>>
callerVars == <<cpc, cop>>
serviceVars == <<client, hres, ares>>
readerVars == <<rpc, rtmp, rres, serviceVars>>
cacheHistory == <<lastApplied, delivered, nApplied, rsnap, rseen>>
historyVars == <<cacheHistory, callHist, sessHist>>
vars == <<clientVars, sessionVars, workerVars, callerVars, readerVars, historyVars>>

\* ------------------------------------------------ the cache: pure functions

Range(f) == {f[i] : i \in DOMAIN f}

\* A variant of Matches that also compares the exchange.
MatchesExchangeToo(pos, contract) ==
    /\ pos.symbol = contract.symbol
    /\ pos.secType = contract.secType
    /\ pos.exchange = contract.exchange

\* pos["symbol"] == contract.symbol and pos["secType"] == contract.secType
Matches(pos, contract) ==
    pos.symbol = contract.symbol /\ pos.secType = contract.secType

\* position_data of updatePortfolio.
PositionData(m) ==
    [symbol |-> m.contract.symbol, secType |-> m.contract.secType,
     exchange |-> m.contract.exchange, currency |-> m.contract.currency,
     position |-> FloatOfDecimal(m.position), marketPrice |-> m.marketPrice,
     marketValue |-> m.marketValue, averageCost |-> m.averageCost,
     unrealizedPNL |-> m.unrealizedPNL, realizedPNL |-> m.realizedPNL]

\* The list comprehension of the closed-position branch.
RemovePosition(ps, contract) ==
    SelectSeq(ps, LAMBDA pos : ~Matches(pos, contract))

\* A variant of UpsertPosition that drops the match and appends the update.
UpsertMovesToEnd(ps, contract, data) ==
    Append(SelectSeq(ps, LAMBDA pos : ~Matches(pos, contract)), data)

\* The enumerate loop: replace the first match and return, else append.
UpsertPosition(ps, contract, data) ==
    IF \E i \in 1..Len(ps) : Matches(ps[i], contract)
    THEN LET i == CHOOSE i \in 1..Len(ps) :
                     /\ Matches(ps[i], contract)
                     /\ \A j \in 1..(i - 1) : ~Matches(ps[j], contract)
         IN  [ps EXCEPT ![i] = data]
    ELSE Append(ps, data)

\* A variant of PortfolioResult without the closed-position branch.
PortfolioResultKeepsZero(ps, m) ==
    UpsertPosition(ps, m.contract, PositionData(m))

\* self._positions after updatePortfolio(m).
PortfolioResult(ps, m) ==
    IF FloatOfDecimal(m.position) = 0
    THEN RemovePosition(ps, m.contract)
    ELSE UpsertPosition(ps, m.contract, PositionData(m))

\* An insertion-ordered dict d (a sequence of <<key, value>> pairs).
HasKey(d, k) == \E i \in 1..Len(d) : d[i][1] = k
Lookup(d, k) == d[CHOOSE i \in 1..Len(d) : d[i][1] = k][2]

\* d[k] = v: an existing key keeps its place, a new key goes last.
DictSet(d, k, v) ==
    IF HasKey(d, k)
    THEN [i \in 1..Len(d) |-> IF d[i][1] = k THEN <<k, v>> ELSE d[i]]
    ELSE Append(d, <<k, v>>)

\* A variant of StoreValue that replaces the inner dict by the new entry.
StoreValueAlone(av, key, currency, val) ==
    [k \in DOMAIN av \cup {key} |->
        IF k = key THEN <<(<<currency, val>>)>> ELSE av[k]]

\* self._account_values after the two statements of updateAccountValue that
\* create the inner dict when the key is new and set the currency's value.
StoreValue(av, key, currency, val) ==
    [k \in DOMAIN av \cup {key} |->
        IF k = key
        THEN DictSet(IF key \in DOMAIN av THEN av[key] ELSE <<>>, currency, val)
        ELSE av[k]]

\* Does the if / elif / elif-for chain of get_account_summary set summary[key]?
HasSummaryEntry(values) ==
    \/ HasKey(values, "USD")
    \/ HasKey(values, "BASE")
    \/ \E i \in 1..Len(values) : values[i][1] # ""

\* A variant of SummaryEntry that takes "BASE" before "USD".
SummaryEntryBaseFirst(values) ==
    IF HasKey(values, "BASE")
    THEN [value |-> Lookup(values, "BASE"), currency |-> "BASE"]
    ELSE IF HasKey(values, "USD")
    THEN [value |-> Lookup(values, "USD"), currency |-> "USD"]
    ELSE LET i == CHOOSE i \in 1..Len(values) :
                     /\ values[i][1] # ""
                     /\ \A j \in 1..(i - 1) : values[j][1] = ""
         IN  [value |-> values[i][2], currency |-> values[i][1]]

\* ... and the entry it sets: USD, else BASE, else the first entry in
\* insertion order whose currency is not empty.
SummaryEntry(values) ==
    IF HasKey(values, "USD")
    THEN [value |-> Lookup(values, "USD"), currency |-> "USD"]
    ELSE IF HasKey(values, "BASE")
    THEN [value |-> Lookup(values, "BASE"), currency |-> "BASE"]
    ELSE LET i == CHOOSE i \in 1..Len(values) :
                     /\ values[i][1] # ""
                     /\ \A j \in 1..(i - 1) : values[j][1] = ""
         IN  [value |-> values[i][2], currency |-> values[i][1]]

\* summary of get_account_summary.
Summary(av) ==
    [key \in {k \in Range(KeyMetrics) \cap DOMAIN av : HasSummaryEntry(av[k])} |->
        SummaryEntry(av[key])]

\* The entries of the cash-balance loop that reach float(value).
CashEntries(av) ==
    IF "CashBalance" \in DOMAIN av
    THEN {e \in Range(av["CashBalance"]) : e[1] # ""}
    ELSE {}

\* float(value) raises ValueError in the cash-balance loop.
CashRaises(av) == \E e \in CashEntries(av) : ~IsNumeric(e[2])

\* A variant of CashBalances that keeps the entries whose value is zero.
CashBalancesWithZero(av) ==
    LET kept == CashEntries(av)
    IN  [c \in {e[1] : e \in kept} |-> Lookup(av["CashBalance"], c)]

\* cash_balances of get_account_summary (when float() does not raise).
CashBalances(av) ==
    LET kept == {e \in CashEntries(av) : FloatOfStr(e[2]) # 0}
    IN  [c \in {e[1] : e \in kept} |-> Lookup(av["CashBalance"], c)]

\* IBClient.is_connected
is_connected == connected /\ sessionLive

\* ------------------------------------------------------ the worker thread

\* The gateway sends nextValidId once per connection, account data only to a
\* subscribed session, and errors and notices at any time.
GatewayMaySend(m) ==
    CASE m.kind = "nextValidId" -> ackPending
      [] m.kind \in {"updateAccountValue", "updatePortfolio", "updateAccountTime",
                     "accountDownloadEnd"} -> subscribed
      [] OTHER -> TRUE

\* A lock that never makes a thread wait.
LockIgnored == TRUE

\* with self._lock: the lock can be taken
LockFree == lock = FreeLock

\* EClient.run on worker w receives the next message from the gateway and
\* calls the callback it decodes to.
WorkerTake(w, msgs) ==
    /\ wpc[w] = "run"
    /\ sessionLive
    /\ \E m \in msgs :
        /\ GatewayMaySend(m)
        /\ wmsg' = [wmsg EXCEPT ![w] = m]
        /\ wpc' = [wpc EXCEPT ![w] = m.kind]
        /\ ackPending' = (ackPending /\ m.kind # "nextValidId")
    /\ UNCHANGED <<clientVars, sessionLive, subscribed, callerVars, readerVars>>

\* The callback on worker w returns to the message loop.
Return(w) ==
    /\ wpc' = [wpc EXCEPT ![w] = "run"]
    /\ wmsg' = [wmsg EXCEPT ![w] = NoMsg]

updatePortfolio(w) ==
    /\ wpc[w] = "updatePortfolio"
    /\ LockFree
    /\ positions' = PortfolioResult(positions, wmsg[w])
    /\ Return(w)
    /\ UNCHANGED <<lock, connected, account_ready, thread, account_values,
                   account_name, account_time, next_order_id, last_error,
                   sessionVars, callerVars, readerVars>>

\* updateAccountValue takes the lock and records the account name ...
updateAccountValue(w) ==
    /\ wpc[w] = "updateAccountValue"
    /\ LockFree
    /\ lock' = WorkerThread(w)
    /\ account_name' = wmsg[w].accountName
    /\ wpc' = [wpc EXCEPT ![w] = "updateAccountValue_store"]
    /\ UNCHANGED <<connected, account_ready, thread, account_values, positions,
                   account_time, next_order_id, last_error, wmsg,
                   sessionVars, callerVars, readerVars>>

\* ... then stores the value and releases the lock.
updateAccountValue_store(w) ==
    /\ wpc[w] = "updateAccountValue_store"
    /\ account_values' = StoreValue(account_values, wmsg[w].key,
                                    wmsg[w].currency, wmsg[w].val)
    /\ lock' = FreeLock
    /\ Return(w)
    /\ UNCHANGED <<connected, account_ready, thread, positions, account_name,
                   account_time, next_order_id, last_error,
                   sessionVars, callerVars, readerVars>>

updateAccountTime(w) ==
    /\ wpc[w] = "updateAccountTime"
    /\ LockFree
    /\ account_time' = wmsg[w].timeStamp
    /\ Return(w)
    /\ UNCHANGED <<lock, connected, account_ready, thread, account_values,
                   positions, account_name, next_order_id, last_error,
                   sessionVars, callerVars, readerVars>>

\* nextValidId stores the order id under the lock ...
nextValidId(w) ==
    /\ wpc[w] = "nextValidId"
    /\ LockFree
    /\ next_order_id' = wmsg[w].orderId
    /\ wpc' = [wpc EXCEPT ![w] = "nextValidId_set"]
    /\ UNCHANGED <<lock, connected, account_ready, thread, account_values,
                   positions, account_name, account_time, last_error, wmsg,
                   sessionVars, callerVars, readerVars>>

\* ... and, the lock released, sets the connected event.
nextValidId_set(w) ==
    /\ wpc[w] = "nextValidId_set"
    /\ connected' = TRUE
    /\ Return(w)
    /\ UNCHANGED <<lock, account_ready, thread, account_values, positions,
                   account_name, account_time, next_order_id, last_error,
                   sessionVars, callerVars, readerVars>>

\* connectionClosed clears the connected event ...
connectionClosed(w) ==
    /\ wpc[w] = "connectionClosed"
    /\ connected' = FALSE
    /\ wpc' = [wpc EXCEPT ![w] = "connectionClosed_ready"]
    /\ UNCHANGED <<lock, account_ready, thread, account_values, positions,
                   account_name, account_time, next_order_id, last_error, wmsg,
                   sessionVars, callerVars, readerVars>>

\* ... and then the account-ready event.
connectionClosed_ready(w) ==
    /\ wpc[w] = "connectionClosed_ready"
    /\ account_ready' = FALSE
    /\ Return(w)
    /\ UNCHANGED <<lock, connected, thread, account_values, positions,
                   account_name, account_time, next_order_id, last_error,
                   sessionVars, callerVars, readerVars>>

\* f"Error {errorCode}: {errorString}"
ErrorText(errorCode, errorString) ==
    <<"Error ", ToString(errorCode), ": ", errorString>>

\* A variant of error in which an operational error ends the message loop.
error_ends_loop(w) ==
    /\ wpc[w] = "error"
    /\ IF wmsg[w].errorCode \in info_codes
       THEN UNCHANGED last_error /\ Return(w)
       ELSE /\ LockFree
            /\ last_error' = ErrorText(wmsg[w].errorCode, wmsg[w].errorString)
            /\ wpc' = [wpc EXCEPT ![w] = "dead"]
            /\ wmsg' = [wmsg EXCEPT ![w] = NoMsg]
    /\ UNCHANGED <<lock, connected, account_ready, thread, account_values,
                   positions, account_name, account_time, next_order_id,
                   sessionVars, callerVars, readerVars>>

error(w) ==
    /\ wpc[w] = "error"
    /\ IF wmsg[w].errorCode \in info_codes
       THEN UNCHANGED last_error
       ELSE /\ LockFree
            /\ last_error' = ErrorText(wmsg[w].errorCode, wmsg[w].errorString)
    /\ Return(w)
    /\ UNCHANGED <<lock, connected, account_ready, thread, account_values,
                   positions, account_name, account_time, next_order_id,
                   sessionVars, callerVars, readerVars>>

\* A variant of accountDownloadEnd that also records the account name.
accountDownloadEnd_records_account(w) ==
    /\ wpc[w] = "accountDownloadEnd"
    /\ account_ready' = TRUE
    /\ account_name' = wmsg[w].accountName
    /\ Return(w)
    /\ UNCHANGED <<lock, connected, thread, account_values, positions,
                   account_time, next_order_id, last_error,
                   sessionVars, callerVars, readerVars>>

accountDownloadEnd(w) ==
    /\ wpc[w] = "accountDownloadEnd"
    /\ account_ready' = TRUE
    /\ Return(w)
    /\ UNCHANGED <<lock, connected, thread, account_values, positions,
                   account_name, account_time, next_order_id, last_error,
                   sessionVars, callerVars, readerVars>>

\* threading.Thread.is_alive
Alive(w) == wpc[w] \notin {"unborn", "dead"}

\* The gateway or the network closes the connection; nobody is told.
ConnectionLost ==
    /\ sessionLive
    /\ sessionLive' = FALSE
    /\ subscribed' = FALSE
    /\ ackPending' = FALSE
    /\ UNCHANGED <<clientVars, workerVars, callerVars, readerVars>>

\* The connection closes and the session calls connectionClosed on worker w.
WorkerConnectionLost(w) ==
    /\ wpc[w] = "run"
    /\ sessionLive
    /\ sessionLive' = FALSE
    /\ subscribed' = FALSE
    /\ ackPending' = FALSE
    /\ wpc' = [wpc EXCEPT ![w] = "connectionClosed"]
    /\ UNCHANGED <<clientVars, wmsg, callerVars, readerVars>>

\* EClient.run leaves its loop once the session is no longer connected, and
\* the thread ends.
WorkerExit(w) ==
    /\ wpc[w] = "run"
    /\ ~sessionLive
    /\ wpc' = [wpc EXCEPT ![w] = "dead"]
    /\ UNCHANGED <<clientVars, sessionVars, wmsg, callerVars, readerVars>>

\* -------------------------------------------------------------- the readers

NoResult == [status |-> "none"]

\* A variant of the result that hands out the cached list itself.
CachedListReturned == {"positions"}

\* The entries of the returned dict that are objects of the cache: none.
\* summary and cash_balances are dicts the call builds, and
\* list(self._positions) is a new list.
SharedWithCache == {}

\* get_account_summary: with self._lock
get_account_summary(r) ==
    /\ rpc[r] \in {"idle", "endpoint"}
    /\ LockFree
    /\ lock' = ReaderThread(r)
    /\ rpc' = [rpc EXCEPT ![r] = "summary"]
    /\ rtmp' = [rtmp EXCEPT ![r] = <<>>]
    /\ rres' = [rres EXCEPT ![r] = NoResult]
    /\ UNCHANGED <<connected, account_ready, thread, account_values, positions,
                   account_name, account_time, next_order_id, last_error,
                   sessionVars, workerVars, callerVars>>

\* the loop over key_metrics
get_account_summary_summary(r) ==
    /\ rpc[r] = "summary"
    /\ rtmp' = [rtmp EXCEPT ![r] = [summary |-> Summary(account_values)]]
    /\ rpc' = [rpc EXCEPT ![r] = "cash_balances"]
    /\ UNCHANGED <<clientVars, sessionVars, workerVars, callerVars, rres>>

\* the loop over the cash balances: float() raises and the with statement
\* releases the lock on the way out, or cash_balances is built
get_account_summary_cash(r) ==
    /\ rpc[r] = "cash_balances"
    /\ IF CashRaises(account_values)
       THEN /\ lock' = FreeLock
            /\ rres' = [rres EXCEPT ![r] = [status |-> "raised"]]
            /\ rtmp' = [rtmp EXCEPT ![r] = <<>>]
            /\ rpc' = [rpc EXCEPT ![r] = "idle"]
       ELSE /\ rtmp' = [rtmp EXCEPT ![r] =
                    [summary |-> rtmp[r].summary,
                     cash_balances |-> CashBalances(account_values)]]
            /\ rpc' = [rpc EXCEPT ![r] = "return"]
            /\ UNCHANGED <<lock, rres>>
    /\ UNCHANGED <<connected, account_ready, thread, account_values, positions,
                   account_name, account_time, next_order_id, last_error,
                   sessionVars, workerVars, callerVars>>

\* A variant of the return in which is_connected() takes the lock itself,
\* while get_account_summary holds it.
get_account_summary_return_locking(r) ==
    /\ rpc[r] = "return"
    /\ LockFree
    /\ rres' = [rres EXCEPT ![r] =
            [status |-> "ok",
             account_id |-> account_name,
             last_update |-> account_time,
             connected |-> is_connected,
             trading_mode |-> TradingMode,
             summary |-> rtmp[r].summary,
             cash_balances |-> rtmp[r].cash_balances,
             positions |-> positions,
             shared |-> SharedWithCache]]
    /\ lock' = FreeLock
    /\ rtmp' = [rtmp EXCEPT ![r] = <<>>]
    /\ rpc' = [rpc EXCEPT ![r] = "idle"]
    /\ UNCHANGED <<connected, account_ready, thread, account_values, positions,
                   account_name, account_time, next_order_id, last_error,
                   sessionVars, workerVars, callerVars>>

\* the returned dict; leaving the with block releases the lock
get_account_summary_return(r) ==
    /\ rpc[r] = "return"
    /\ rres' = [rres EXCEPT ![r] =
            [status |-> "ok",
             account_id |-> account_name,
             last_update |-> account_time,
             connected |-> is_connected,
             trading_mode |-> TradingMode,
             summary |-> rtmp[r].summary,
             cash_balances |-> rtmp[r].cash_balances,
             positions |-> positions,
             shared |-> SharedWithCache]]
    /\ lock' = FreeLock
    /\ rtmp' = [rtmp EXCEPT ![r] = <<>>]
    /\ rpc' = [rpc EXCEPT ![r] = "idle"]
    /\ UNCHANGED <<connected, account_ready, thread, account_values, positions,
                   account_name, account_time, next_order_id, last_error,
                   sessionVars, workerVars, callerVars>>

\* The cache as a reader holding the lock finds it.
CacheNow ==
    [account_values |-> account_values, positions |-> positions,
     account_name |-> account_name, account_time |-> account_time]

\* Is some callback between taking and releasing the lock?
InCallback == \E w \in WorkerIds : wpc[w] = "updateAccountValue_store"

\* A reader's steps, with the history of what it saw when it took the lock.
ReaderCall(r) ==
    /\ get_account_summary(r)
    /\ rsnap' = [rsnap EXCEPT ![r] = [cache |-> CacheNow, inCallback |-> InCallback]]
    /\ rseen' = [rseen EXCEPT ![r] = <<rseen[r][2], nApplied>>]
    /\ UNCHANGED <<lastApplied, delivered, nApplied, callHist, sessHist, serviceVars>>

ReaderStep(r) ==
    /\ \/ get_account_summary_summary(r)
       \/ get_account_summary_cash(r)
       \/ get_account_summary_return(r)
    /\ UNCHANGED <<historyVars, serviceVars>>

\* get_connection_status, called by reader r: with self._lock, and the first
\* entry of the dict, "connected": self.is_connected()
get_connection_status_connected(r) ==
    /\ rpc[r] = "idle"
    /\ LockFree
    /\ lock' = ReaderThread(r)
    /\ rpc' = [rpc EXCEPT ![r] = "status"]
    /\ rtmp' = [rtmp EXCEPT ![r] = [connected |-> is_connected]]
    /\ rres' = [rres EXCEPT ![r] = NoResult]
    /\ UNCHANGED <<connected, account_ready, thread, account_values, positions,
                   account_name, account_time, next_order_id, last_error,
                   sessionVars, workerVars, callerVars>>

\* the other entries of the dict, from "account_ready":
\* self._account_ready.is_set() on; the lock is released, the dict returned
get_connection_status_return(r) ==
    /\ rpc[r] = "status"
    /\ rres' = [rres EXCEPT ![r] =
            [status |-> "status",
             connected |-> rtmp[r].connected,
             account_ready |-> account_ready,
             account_id |-> IF account_name = "" THEN <<>> ELSE <<account_name>>,
             trading_mode |-> TradingMode,
             last_error |-> last_error]]
    /\ lock' = FreeLock
    /\ rtmp' = [rtmp EXCEPT ![r] = <<>>]
    /\ rpc' = [rpc EXCEPT ![r] = "idle"]
    /\ UNCHANGED <<connected, account_ready, thread, account_values, positions,
                   account_name, account_time, next_order_id, last_error,
                   sessionVars, workerVars, callerVars>>

\* ----------------------------------------------------- the HTTP endpoints

\* No response so far, or the request is still being handled.
NoResponse == [code |-> 0, detail |-> "none"]

\* status.HTTP_200_OK, status.HTTP_503_SERVICE_UNAVAILABLE
HTTP_200_OK == 200
HTTP_503_SERVICE_UNAVAILABLE == 503

\* get_ib_client raises RuntimeError: the global _client is None.
NotInitialized == ~client

\* IBClient.get_connection_status: the dict it returns (account_id is a
\* one-element tuple, or <<>> for None).
get_connection_status ==
    [connected |-> is_connected,
     account_ready |-> account_ready,
     account_id |-> IF account_name = "" THEN <<>> ELSE <<account_name>>,
     trading_mode |-> TradingMode,
     last_error |-> last_error]

\* A variant of HealthStatus that reports a connected client as healthy.
HealthStatusLenient(status_data) ==
    IF status_data.connected
    THEN [status |-> "healthy", code |-> HTTP_200_OK]
    ELSE [status |-> "unhealthy", code |-> HTTP_503_SERVICE_UNAVAILABLE]

\* health_check: health_status and http_status for a status read.
HealthStatus(status_data) ==
    IF status_data.connected /\ status_data.account_ready
    THEN [status |-> "healthy", code |-> HTTP_200_OK]
    ELSE IF status_data.connected
    THEN [status |-> "degraded", code |-> HTTP_503_SERVICE_UNAVAILABLE]
    ELSE [status |-> "unhealthy", code |-> HTTP_503_SERVICE_UNAVAILABLE]

\* health_check: the response built from a status read.
HealthResponse(status_data) ==
    [code |-> HealthStatus(status_data).code,
     status |-> HealthStatus(status_data).status,
     connected |-> status_data.connected,
     account_ready |-> status_data.account_ready,
     account_id |-> status_data.account_id,
     trading_mode |-> status_data.trading_mode,
     last_error |-> status_data.last_error]

\* health_check: the response of the except branch, with the identifier
\* uuid4().hex[:8] gives.
HealthFailure ==
    [code |-> HTTP_503_SERVICE_UNAVAILABLE,
     status |-> "unhealthy",
     connected |-> FALSE,
     account_ready |-> FALSE,
     account_id |-> <<>>,
     trading_mode |-> "unknown",
     last_error |-> <<"Internal server error [ref: ", "error_id", "]">>]

\* GET /health. The response is kept with what the handler read: whether
\* the global was set, and the connected and account-ready of the status.
health_check ==
    /\ NotInitialized \/ LockFree
    /\ hres' = [response |-> IF NotInitialized THEN HealthFailure
                             ELSE HealthResponse(get_connection_status),
                read |-> [initialized |-> ~NotInitialized,
                          connected |-> is_connected,
                          account_ready |-> account_ready,
                          last_error |-> last_error]]
    /\ UNCHANGED <<clientVars, sessionVars, workerVars, callerVars,
                   rpc, rtmp, rres, client, ares, historyVars>>

\* A variant of NotConnected that takes every client for connected.
NeverNotConnected == FALSE

\* get_connected_ib_client: not client.is_connected()
NotConnected == ~is_connected

\* get_connected_ib_client, the dependency of the account endpoints: 503 if
\* the global is not set or the client is not connected, else the endpoint
\* is entered with the client.
get_connected_ib_client(r) ==
    /\ rpc[r] = "idle"
    /\ IF NotInitialized
       THEN /\ ares' = [ares EXCEPT ![r] =
                    [code |-> HTTP_503_SERVICE_UNAVAILABLE,
                     detail |-> "IB client not initialized"]]
            /\ UNCHANGED rpc
       ELSE IF NotConnected
       THEN /\ ares' = [ares EXCEPT ![r] =
                    [code |-> HTTP_503_SERVICE_UNAVAILABLE,
                     detail |-> "Not connected to IB Gateway"]]
            /\ UNCHANGED rpc
       ELSE /\ ares' = [ares EXCEPT ![r] = NoResponse]
            /\ rpc' = [rpc EXCEPT ![r] = "endpoint"]
    /\ UNCHANGED <<clientVars, sessionVars, workerVars, callerVars,
                   rtmp, rres, client, hres, historyVars>>

\* get_account_balance / get_account_summary call client.get_account_summary()
\* and answer 200 with what it returned, or fail with what it raised.
account_endpoint(r) ==
    /\ \/ rpc[r] = "endpoint" /\ get_account_summary(r)
       \/ get_account_summary_summary(r)
       \/ get_account_summary_cash(r)
       \/ get_account_summary_return(r)
    /\ ares' = [ares EXCEPT ![r] =
            IF rpc'[r] # "idle" THEN NoResponse
            ELSE IF rres'[r].status = "ok" THEN [code |-> HTTP_200_OK, detail |-> "ok"]
            ELSE [code |-> 500, detail |-> "Internal Server Error"]]
    /\ UNCHANGED <<client, hres, historyVars>>

\* init_ib_client: the client is constructed and the global set.
init_ib_client ==
    /\ NotInitialized
    /\ cpc = "idle"
    /\ callHist.last.op = "none"
    /\ client' = TRUE
    /\ UNCHANGED <<clientVars, sessionVars, workerVars, callerVars,
                   rpc, rtmp, rres, hres, ares, historyVars>>

\* shutdown_ib_client, after _client.stop() has returned: _client = None
shutdown_ib_client ==
    /\ ~NotInitialized
    /\ cpc = "idle"
    /\ callHist.last.op = "stop"
    /\ client' = FALSE
    /\ UNCHANGED <<clientVars, sessionVars, workerVars, callerVars,
                   rpc, rtmp, rres, hres, ares, historyVars>>

\* ------------------------------------------------------ the lifecycle caller

\* What the supervisor holds when a call returns.
SupervisorState ==
    [thread |-> thread, connected |-> connected,
     account_ready |-> account_ready, sessionLive |-> sessionLive]

\* The history of the calls made: for the last call returned, what it was,
\* its result, the supervisor as it left it and whether that is as the call
\* before had left it; for the call before, what it was and its result.
NoCall ==
    [op |-> "none", result |-> "none", same |-> TRUE,
     left |-> [thread |-> None, connected |-> FALSE,
               account_ready |-> FALSE, sessionLive |-> FALSE]]

\* History of a call that begins, issues commands, and returns.
NewCall ==
    [callHist EXCEPT !.cmds = {}, !.timedOut = FALSE, !.joinTimedOut = FALSE,
                     !.running = (thread # None /\ wpc[thread] \notin {"unborn", "dead"})]
Issued(h, commands) == [h EXCEPT !.cmds = @ \cup commands]
ReturnedFrom(h, op, result) ==
    [h EXCEPT !.before = [op |-> h.last.op, result |-> h.last.result],
              !.last = [op |-> op, result |-> result, left |-> SupervisorState',
                        same |-> (SupervisorState' = h.last.left)]]

\* A variant of the test of start() that never finds the worker running.
NeverRunning == FALSE

\* A variant of the test of start() that does not ask whether the thread lives.
RunningIfReferenced == thread # None

\* self._thread is not None and self._thread.is_alive()
Running == thread # None /\ Alive(thread)

\* start(): the worker is running; warn and return True.
start_already_running ==
    /\ cpc = "idle"
    /\ Running
    /\ cop' = [op |-> "start", inner |-> FALSE]
    /\ UNCHANGED <<cpc, clientVars, sessionVars, workerVars, readerVars, cacheHistory, sessHist>>
    /\ callHist' = ReturnedFrom(NewCall, "start", "True")

\* start(): no worker is running; go on to connect.
start_begin ==
    /\ cpc = "idle"
    /\ ~Running
    /\ \E w \in WorkerIds : wpc[w] = "unborn"
    /\ cpc' = "start_connect"
    /\ cop' = [op |-> "start", inner |-> FALSE]
    /\ UNCHANGED <<clientVars, sessionVars, workerVars, readerVars, cacheHistory>>
    /\ callHist' = NewCall
    /\ sessHist' = [sessHist EXCEPT !.errored = FALSE, !.valued = FALSE]

\* self.connect(host, port, client_id): the session is connected, or the
\* call raises and start() returns False.
start_connect ==
    /\ cpc = "start_connect"
    /\ UNCHANGED <<clientVars, workerVars, readerVars, cacheHistory, sessHist, cop>>
    /\ \/ /\ sessionLive' = TRUE
          /\ ackPending' = TRUE
          /\ subscribed' = FALSE
          /\ cpc' = "start_thread"
          /\ callHist' = Issued(callHist, {"connect"})
       \/ /\ UNCHANGED sessionVars
          /\ cpc' = "idle"
          /\ callHist' = ReturnedFrom(Issued(callHist, {"connect"}), "start", "False")

\* self._thread = threading.Thread(target=self.run); self._thread.start()
start_thread ==
    /\ cpc = "start_thread"
    /\ LET w == CHOOSE w \in WorkerIds :
                    wpc[w] = "unborn" /\ \A v \in 1..(w - 1) : wpc[v] # "unborn"
       IN  /\ thread' = w
           /\ wpc' = [wpc EXCEPT ![w] = "run"]
    /\ cpc' = "start_wait"
    /\ UNCHANGED <<lock, connected, account_ready, account_values, positions,
                   account_name, account_time, next_order_id, last_error,
                   sessionVars, wmsg, cop, readerVars, cacheHistory, sessHist>>
    /\ callHist' = Issued(callHist, {"thread"})

\* self._connected.wait(timeout) finds the event set.
start_wait_set ==
    /\ cpc = "start_wait"
    /\ connected
    /\ cpc' = "start_subscribe"
    /\ UNCHANGED <<clientVars, sessionVars, workerVars, cop, readerVars, historyVars>>

\* self._connected.wait(timeout) times out: start() calls self.stop().
start_wait_timeout ==
    /\ cpc = "start_wait"
    /\ ~connected
    /\ cpc' = "stop_disconnect"
    /\ cop' = [op |-> "start", inner |-> TRUE]
    /\ UNCHANGED <<clientVars, sessionVars, workerVars, readerVars, cacheHistory, sessHist>>
    /\ callHist' = [callHist EXCEPT !.timedOut = TRUE]

\* self.reqAccountUpdates(True, ""): start() returns True, or the command
\* raises out of start().
start_subscribe ==
    /\ cpc = "start_subscribe"
    /\ cpc' = "idle"
    /\ UNCHANGED <<clientVars, sessionLive, ackPending, workerVars, cop,
                   readerVars, cacheHistory, sessHist>>
    /\ \/ /\ subscribed' = sessionLive
          /\ callHist' = ReturnedFrom(Issued(callHist, {"subscribe"}), "start", "True")
       \/ /\ UNCHANGED subscribed
          /\ callHist' = ReturnedFrom(Issued(callHist, {"subscribe"}), "start", "raised")

\* stop() is called.
stop_begin ==
    /\ cpc = "idle"
    /\ cpc' = "stop_disconnect"
    /\ cop' = [op |-> "stop", inner |-> FALSE]
    /\ UNCHANGED <<clientVars, sessionVars, workerVars, readerVars, cacheHistory, sessHist>>
    /\ callHist' = NewCall

\* The try block of stop(): nothing if the session is not connected; else
\* unsubscribe and disconnect, either of which may raise and is then logged.
stop_disconnect ==
    /\ cpc = "stop_disconnect"
    /\ cpc' = "stop_clear_connected"
    /\ UNCHANGED <<clientVars, workerVars, cop, readerVars, cacheHistory, sessHist>>
    /\ IF ~sessionLive
       THEN UNCHANGED <<sessionVars, callHist>>
       ELSE \/ /\ sessionLive' = FALSE
               /\ subscribed' = FALSE
               /\ ackPending' = FALSE
               /\ callHist' = Issued(callHist, {"unsubscribe", "disconnect"})
            \/ /\ UNCHANGED sessionVars
               /\ callHist' = Issued(callHist, {"unsubscribe", "raised"})
            \/ /\ \E live \in BOOLEAN :
                    /\ sessionLive' = live
                    /\ ackPending' = (ackPending /\ live)
               /\ subscribed' = FALSE
               /\ callHist' = Issued(callHist, {"unsubscribe", "disconnect", "raised"})

\* self._connected.clear()
stop_clear_connected ==
    /\ cpc = "stop_clear_connected"
    /\ connected' = FALSE
    /\ cpc' = "stop_clear_ready"
    /\ UNCHANGED <<lock, account_ready, thread, account_values, positions,
                   account_name, account_time, next_order_id, last_error,
                   sessionVars, workerVars, cop, readerVars, historyVars>>

\* self._account_ready.clear()
stop_clear_ready ==
    /\ cpc = "stop_clear_ready"
    /\ account_ready' = FALSE
    /\ cpc' = "stop_join"
    /\ UNCHANGED <<lock, connected, thread, account_values, positions,
                   account_name, account_time, next_order_id, last_error,
                   sessionVars, workerVars, cop, readerVars, historyVars>>

\* A variant of the join that has no timeout: it returns when the thread has
\* ended.
JoinWithoutTimeout == ~Running

\* self._thread.join(timeout=5.0) returns: the thread has ended, or the five
\* seconds have passed.
JoinReturns == TRUE

\* self._thread.join(timeout=5.0) returns, the thread ended or not;
\* self._thread = None; stop() returns, and start() with it if it called.
stop_join ==
    /\ cpc = "stop_join"
    /\ Running => JoinReturns
    /\ thread' = None
    /\ cpc' = "idle"
    /\ UNCHANGED <<lock, connected, account_ready, account_values, positions,
                   account_name, account_time, next_order_id, last_error,
                   sessionVars, workerVars, cop, readerVars, cacheHistory>>
    /\ callHist' =
        ReturnedFrom([callHist EXCEPT !.joinTimedOut = Running],
                     IF cop.inner THEN "start" ELSE "stop",
                     IF cop.inner THEN "False" ELSE "returned")
    /\ sessHist' = [sessHist EXCEPT !.acked = FALSE]

\* ------------------------------------------------------------ initial states

\* IBClient.__init__
InitClient ==
    /\ lock = FreeLock
    /\ connected = FALSE
    /\ account_ready = FALSE
    /\ thread = None
    /\ account_values = <<>>
    /\ positions = <<>>
    /\ account_name = ""
    /\ account_time = ""
    /\ next_order_id = 0
    /\ last_error = NoError

InitReaders ==
    /\ rpc = [r \in Readers |-> "idle"]
    /\ rtmp = [r \in Readers |-> <<>>]
    /\ rres = [r \in Readers |-> NoResult]
    /\ hres = [response |-> NoResponse, read |-> NoResponse]
    /\ ares = [r \in Readers |-> NoResponse]

InitHistory ==
    /\ lastApplied = [msg |-> NoMsg, before |-> <<>>]
    /\ delivered = <<>>
    /\ nApplied = 0
    /\ rsnap = [r \in Readers |-> <<>>]
    /\ rseen = [r \in Readers |-> <<0, 0>>]
    /\ callHist = [cmds |-> {}, timedOut |-> FALSE, joinTimedOut |-> FALSE,
                   running |-> FALSE,
                   last |-> NoCall, before |-> [op |-> "none", result |-> "none"]]
    /\ sessHist = [acked |-> FALSE, errored |-> FALSE, valued |-> FALSE]

\* The client after a start() that returned True: worker 1 runs the message
\* loop of a live, acknowledged and subscribed session.
InitRunning ==
    /\ InitClient!1 /\ InitClient!5 /\ InitClient!6 /\ InitClient!7
    /\ InitClient!8 /\ InitClient!10
    /\ connected = TRUE
    /\ account_ready = FALSE
    /\ thread = 1
    /\ next_order_id = 1
    /\ sessionLive = TRUE
    /\ subscribed = TRUE
    /\ ackPending = FALSE
    /\ wpc = [w \in WorkerIds |-> IF w = 1 THEN "run" ELSE "unborn"]
    /\ wmsg = [w \in WorkerIds |-> NoMsg]
    /\ cpc = "idle"
    /\ cop = [op |-> "start", inner |-> FALSE]
    /\ client = TRUE
    /\ InitReaders
    /\ InitHistory!1 /\ InitHistory!2 /\ InitHistory!3 /\ InitHistory!4 /\ InitHistory!5
    /\ callHist = [cmds |-> {"connect", "thread", "subscribe"}, timedOut |-> FALSE,
                   joinTimedOut |-> FALSE, running |-> FALSE,
                   last |-> [op |-> "start", result |-> "True", same |-> FALSE,
                             left |-> [thread |-> 1, connected |-> TRUE,
                                       account_ready |-> FALSE, sessionLive |-> TRUE]],
                   before |-> [op |-> "none", result |-> "none"]]
    /\ sessHist = [acked |-> TRUE, errored |-> FALSE, valued |-> FALSE]

\* The client as constructed: no session, no worker, no call made.
InitIdle ==
    /\ InitClient
    /\ sessionLive = FALSE
    /\ subscribed = FALSE
    /\ ackPending = FALSE
    /\ wpc = [w \in WorkerIds |-> "unborn"]
    /\ wmsg = [w \in WorkerIds |-> NoMsg]
    /\ cpc = "idle"
    /\ cop = [op |-> "none", inner |-> FALSE]
    /\ InitReaders
    /\ InitHistory

\* init_ib_client has constructed the client and set the global.
Init == InitIdle /\ client = TRUE

\* ----------------------------------------- specification of the life cycle

\* A step of worker thread w.
WorkerStep(w) ==
    \/ WorkerTake(w, LifeMsgs)
    \/ nextValidId(w)
    \/ nextValidId_set(w)
    \/ accountDownloadEnd(w)
    \/ WorkerConnectionLost(w)
    \/ connectionClosed(w)
    \/ connectionClosed_ready(w)
    \/ WorkerExit(w)

\* The history of the acknowledgement: a nextValidId callback that has set
\* the event acknowledges the connection, a connectionClosed callback ends
\* that (and so does a stop() that returns).
Acknowledged(w) ==
    IF wpc[w] = "nextValidId_set" THEN TRUE
    ELSE IF wpc[w] = "connectionClosed" THEN FALSE
    ELSE sessHist.acked

\* The history of the session after a step of worker w: an operational error
\* recorded, account data stored.
SessionHistory(w) ==
    [acked |-> Acknowledged(w),
     errored |-> sessHist.errored
                 \/ (wpc[w] = "error" /\ wmsg[w].errorCode \notin info_codes),
     valued |-> sessHist.valued
                \/ wpc[w] \in {"updateAccountValue_store", "updatePortfolio",
                               "updateAccountTime"}]

Worker ==
    \E w \in WorkerIds :
        /\ WorkerStep(w)
        /\ UNCHANGED <<cacheHistory, callHist>>
        /\ sessHist' = SessionHistory(w)

Gateway == ConnectionLost /\ UNCHANGED historyVars

Next ==
    \/ start_already_running
    \/ start_begin
    \/ start_connect
    \/ start_thread
    \/ start_wait_set
    \/ start_wait_timeout
    \/ start_subscribe
    \/ stop_begin
    \/ stop_disconnect
    \/ stop_clear_connected
    \/ stop_clear_ready
    \/ stop_join
    \/ Worker
    \/ Gateway

Spec == Init /\ [][Next]_vars

\* A step of the thread that called start() or stop(), after the call began.
\* The thread is scheduled, connect returns or raises, the wait on the event
\* and the join of the worker both return at their timeout at the latest.
CallerStep ==
    \/ start_connect
    \/ start_thread
    \/ start_wait_set
    \/ start_wait_timeout
    \/ start_subscribe
    \/ stop_disconnect
    \/ stop_clear_connected
    \/ stop_clear_ready
    \/ stop_join

\* The life cycle with a calling thread that keeps running; nothing is
\* assumed of the gateway or of the worker.
SpecLive == Init /\ [][Next]_vars /\ WF_vars(CallerStep)

\* ------------------------------------------- specification of the service

\* The process as main.py runs it: the lifespan initialises the client and
\* starts it, and at shutdown stops it and clears the global, while the
\* gateway sends acknowledgements, errors and notices and requests arrive.
ServiceMsgs ==
    LifeMsgs \cup {m \in ErrorMsgs : m.errorCode \in {2104, 502}}

InitService == InitIdle /\ client = FALSE

ServiceWorkerStep(w) ==
    \/ WorkerTake(w, ServiceMsgs)
    \/ nextValidId(w)
    \/ nextValidId_set(w)
    \/ accountDownloadEnd(w)
    \/ error(w)
    \/ WorkerConnectionLost(w)
    \/ connectionClosed(w)
    \/ connectionClosed_ready(w)
    \/ WorkerExit(w)

ServiceWorker ==
    \E w \in WorkerIds :
        /\ ServiceWorkerStep(w)
        /\ UNCHANGED <<cacheHistory, callHist>>
        /\ sessHist' = SessionHistory(w)

\* lifespan startup: client.start()
lifespan_start ==
    \/ ~NotInitialized /\ callHist.last.op = "none" /\ start_begin
    \/ start_connect
    \/ start_thread
    \/ start_wait_set
    \/ start_wait_timeout
    \/ start_subscribe

\* lifespan shutdown: shutdown_ib_client calls _client.stop(); the steps of
\* stop() are also those of the stop() a timed-out start() calls.
lifespan_stop ==
    \/ ~NotInitialized /\ callHist.last.op = "start" /\ stop_begin
    \/ stop_disconnect
    \/ stop_clear_connected
    \/ stop_clear_ready
    \/ stop_join

AccountRequest == \E r \in Readers : get_connected_ib_client(r) \/ account_endpoint(r)

NextService ==
    \/ init_ib_client
    \/ lifespan_start
    \/ lifespan_stop
    \/ shutdown_ib_client
    \/ ServiceWorker
    \/ Gateway
    \/ health_check
    \/ AccountRequest

SpecService == InitService /\ [][NextService]_vars

\* -------------------------------- specification of the error notifications

\* Worker 1 handles errors and notices among account data while a reader
\* takes summaries; the history records each error callback with the last
\* error before it.
NotificationMsgs ==
    ErrorMsgs \cup {AccountValueMsg("NetLiquidation", "100", "USD", "DU1"),
                    AccountTimeMsg("10:00")}

NotificationTake == WorkerTake(1, NotificationMsgs) /\ UNCHANGED historyVars

NotificationApply ==
    /\ error(1)
    /\ lastApplied' = [msg |-> wmsg[1], before |-> last_error]
    /\ sessHist' = SessionHistory(1)
    /\ UNCHANGED <<delivered, nApplied, rsnap, rseen, callHist>>

NotificationData ==
    /\ \/ updateAccountValue(1)
       \/ updateAccountValue_store(1)
       \/ updateAccountTime(1)
    /\ UNCHANGED historyVars

NotificationRead == \E r \in Readers : ReaderCall(r) \/ ReaderStep(r)

NextNotifications ==
    NotificationTake \/ NotificationApply \/ NotificationData \/ NotificationRead

SpecNotifications == InitRunning /\ [][NextNotifications]_vars

\* ------------------------------------------ specification of the restart

\* The life cycle with a session that delivers an operational error and an
\* account value, and a reader: what a stop() and a later start() leave of
\* the session before.
RestartMsgs ==
    {[kind |-> "nextValidId", orderId |-> 1],
     ErrorMsg(502, "Couldn't connect to TWS"),
     AccountValueMsg("NetLiquidation", "100", "USD", "DU1")}

RestartWorkerStep(w) ==
    \/ WorkerTake(w, RestartMsgs)
    \/ nextValidId(w)
    \/ nextValidId_set(w)
    \/ error(w)
    \/ updateAccountValue(w)
    \/ updateAccountValue_store(w)
    \/ WorkerExit(w)

RestartWorker ==
    \E w \in WorkerIds :
        /\ RestartWorkerStep(w)
        /\ UNCHANGED <<cacheHistory, callHist>>
        /\ sessHist' = SessionHistory(w)

\* The last call was a start() that connected and returned True; no account
\* data has been stored since it began, and no worker of an earlier start()
\* is alive.
FreshlyStarted ==
    /\ cpc = "idle"
    /\ callHist.last.op = "start"
    /\ callHist.last.result = "True"
    /\ "connect" \in callHist.cmds
    /\ ~sessHist.valued
    /\ \A w \in WorkerIds \ {thread} : ~Alive(w)

\* A reader's call, with the history of whether it came freshly after start().
RestartReadCall(r) ==
    /\ get_account_summary(r)
    /\ rsnap' = [rsnap EXCEPT ![r] =
            [cache |-> CacheNow, inCallback |-> InCallback, fresh |-> FreshlyStarted]]
    /\ UNCHANGED <<lastApplied, delivered, nApplied, rseen, callHist, sessHist,
                   serviceVars>>

RestartRead == \E r \in Readers : RestartReadCall(r) \/ ReaderStep(r)

NextRestart ==
    \/ start_already_running
    \/ start_begin
    \/ start_connect
    \/ start_thread
    \/ start_wait_set
    \/ start_wait_timeout
    \/ start_subscribe
    \/ stop_begin
    \/ stop_disconnect
    \/ stop_clear_connected
    \/ stop_clear_ready
    \/ stop_join
    \/ RestartWorker
    \/ RestartRead

SpecRestart == Init /\ [][NextRestart]_vars

\* ------------------------------------ specification of the cash balances

\* Worker 1 stores cash balances, one of them with a value that is no
\* number, while a reader takes summaries.
CashMsgs ==
    {AccountValueMsg("CashBalance", cv[2], cv[1], "DU1") :
        cv \in {<<"USD", "50">>, <<"USD", "N/A">>, <<"EUR", "0.00">>,
                 <<"EUR", "100.50">>, <<"", "N/A">>}}

CashTake == WorkerTake(1, CashMsgs) /\ UNCHANGED historyVars

CashApply ==
    /\ updateAccountValue(1) \/ updateAccountValue_store(1)
    /\ UNCHANGED historyVars

CashRead == \E r \in Readers : ReaderCall(r) \/ ReaderStep(r)

NextCash == CashTake \/ CashApply \/ CashRead

SpecCash == InitRunning /\ [][NextCash]_vars

\* ------------------------------------------- specification of the positions

\* The worker applies portfolio updates; the history records each one.
PortfolioTake == WorkerTake(1, PortfolioMsgs) /\ UNCHANGED historyVars

PortfolioApply ==
    /\ updatePortfolio(1)
    /\ lastApplied' = [msg |-> wmsg[1], before |-> positions]
    /\ UNCHANGED <<delivered, nApplied, rsnap, rseen, callHist, sessHist>>

NextPositions == PortfolioTake \/ PortfolioApply

SpecPositions == InitRunning /\ [][NextPositions]_vars

\* --------------------------------------- specification of the summary view

\* The worker applies account values while a reader takes summaries.
SummaryTake == WorkerTake(1, SummaryMsgs) /\ UNCHANGED historyVars

SummaryApply ==
    /\ updateAccountValue(1) \/ updateAccountValue_store(1)
    /\ UNCHANGED historyVars

SummaryRead == \E r \in Readers : ReaderCall(r) \/ ReaderStep(r)

NextSummary == SummaryTake \/ SummaryApply \/ SummaryRead

SpecSummary == InitRunning /\ [][NextSummary]_vars

\* ------------------------- specification of the order of callbacks and reads

\* Worker 1 applies a bounded stream of account events while the readers
\* take summaries; the history records the order of the callbacks.
CacheTake ==
    /\ Len(delivered) < MaxEvents
    /\ WorkerTake(1, CacheMsgs)
    /\ delivered' = Append(delivered, wmsg'[1])
    /\ UNCHANGED <<lastApplied, nApplied, rsnap, rseen, callHist, sessHist>>

CacheApplyStep ==
    /\ updateAccountValue(1)
    /\ UNCHANGED historyVars

CacheApply ==
    /\ \/ updateAccountValue_store(1)
       \/ updatePortfolio(1)
       \/ updateAccountTime(1)
    /\ nApplied' = nApplied + 1
    /\ UNCHANGED <<lastApplied, delivered, rsnap, rseen, callHist, sessHist>>

CacheRead == \E r \in Readers : ReaderCall(r) \/ ReaderStep(r)

NextCache == CacheTake \/ CacheApplyStep \/ CacheApply \/ CacheRead

SpecCache == InitRunning /\ [][NextCache]_vars

\* ------------------------------------- specification of the status reads

\* A session that has been acknowledged and has ended its account download:
\* both flags are set. The worker handles errors and notices, the connection
\* may close, the caller may stop the client, and a reader asks for the
\* connection status. No acknowledgement and no end of download arrive, so
\* the flags are only cleared.
InitReady ==
    /\ InitRunning!1 /\ InitRunning!2 /\ InitRunning!3
    /\ account_ready = TRUE
    /\ InitRunning!5 /\ InitRunning!6 /\ InitRunning!7 /\ InitRunning!8
    /\ InitRunning!9 /\ InitRunning!10 /\ InitRunning!11 /\ InitRunning!12
    /\ InitRunning!13 /\ InitRunning!14 /\ InitRunning!15 /\ InitRunning!16
    /\ InitRunning!17 /\ InitRunning!18

StatusMsgs ==
    {ErrorMsg(502, "Couldn't connect to TWS"),
     ErrorMsg(2104, "Market data farm connection is OK"),
     AccountValueMsg("NetLiquidation", "100", "USD", "DU1")}

StatusWorker ==
    /\ \/ WorkerTake(1, StatusMsgs)
       \/ error(1)
       \/ updateAccountValue(1)
       \/ updateAccountValue_store(1)
       \/ WorkerConnectionLost(1)
       \/ connectionClosed(1)
       \/ connectionClosed_ready(1)
       \/ WorkerExit(1)
    /\ UNCHANGED <<cacheHistory, callHist>>
    /\ sessHist' = SessionHistory(1)

StatusStop ==
    \/ stop_begin
    \/ stop_disconnect
    \/ stop_clear_connected
    \/ stop_clear_ready
    \/ stop_join

StatusRead ==
    \E r \in Readers :
        /\ \/ get_connection_status_connected(r)
           \/ get_connection_status_return(r)
        /\ UNCHANGED <<historyVars, serviceVars>>

NextStatus == StatusWorker \/ StatusStop \/ StatusRead

SpecStatus == InitReady /\ [][NextStatus]_vars

\* ----------------------------------------- specification of one session

\* One session from the return of start() to its end: worker 1 applies
\* account values (an overwrite under another account name among them), a
\* position, a time, an operational error and the end of the download; the
\* connection may close and the caller may stop the client.
SessionMsgs ==
    {AccountValueMsg("NetLiquidation", "100", "USD", "DU1"),
     AccountValueMsg("NetLiquidation", "50", "USD", "DU2"),
     AccountValueMsg("NetLiquidation", "50", "BASE", "DU1"),
     AccountValueMsg("CashBalance", "50", "USD", "DU1"),
     AccountTimeMsg("10:00"),
     ErrorMsg(502, "Couldn't connect to TWS"),
     [kind |-> "accountDownloadEnd", accountName |-> "DU1"]}
    \cup {m \in PortfolioMsgs :
            /\ m.contract.symbol = "AAPL" /\ m.contract.secType = "STK"
            /\ m.contract.exchange = "SMART" /\ m.position = 5}

SessionWorker ==
    /\ \/ WorkerTake(1, SessionMsgs)
       \/ updateAccountValue(1)
       \/ updateAccountValue_store(1)
       \/ updatePortfolio(1)
       \/ updateAccountTime(1)
       \/ error(1)
       \/ accountDownloadEnd(1)
       \/ WorkerConnectionLost(1)
       \/ connectionClosed(1)
       \/ connectionClosed_ready(1)
       \/ WorkerExit(1)
    /\ UNCHANGED <<cacheHistory, callHist>>
    /\ sessHist' = SessionHistory(1)

NextSession == SessionWorker \/ StatusStop

SpecSession == InitRunning /\ [][NextSession]_vars

\* ------------------------------------------- specification of the lock

\* A request handler r1 passes the dependency and calls get_account_summary
\* and a second handler r2 asks for the connection status, again and again,
\* while worker 1 applies callbacks that take the lock and the caller may
\* stop the client.
LockReaders == {"r1", "r2"}

LockMsgs == {AccountValueMsg("NetLiquidation", "100", "USD", "DU1")}

InitLock ==
    /\ InitRunning!1 /\ InitRunning!2 /\ InitRunning!3 /\ InitRunning!4
    /\ InitRunning!5 /\ InitRunning!6 /\ InitRunning!7 /\ InitRunning!8
    /\ InitRunning!9 /\ InitRunning!10 /\ InitRunning!11 /\ InitRunning!12
    /\ InitRunning!13 /\ InitRunning!14 /\ InitRunning!17 /\ InitRunning!18
    /\ rpc = [r \in LockReaders |-> "idle"]
    /\ rtmp = [r \in LockReaders |-> <<>>]
    /\ rres = [r \in LockReaders |-> NoResult]
    /\ hres = [response |-> NoResponse, read |-> NoResponse]
    /\ ares = [r \in LockReaders |-> NoResponse]
    /\ InitHistory!1 /\ InitHistory!2 /\ InitHistory!3
    /\ rsnap = [r \in LockReaders |-> <<>>]
    /\ rseen = [r \in LockReaders |-> <<0, 0>>]

LockTake == WorkerTake(1, LockMsgs) /\ UNCHANGED historyVars

\* The callbacks of worker 1, each of which takes the lock.
LockCallback ==
    /\ \/ updateAccountValue(1)
       \/ updateAccountValue_store(1)
    /\ UNCHANGED <<cacheHistory, callHist>>
    /\ sessHist' = SessionHistory(1)

LockSession ==
    /\ WorkerExit(1)
    /\ UNCHANGED <<cacheHistory, callHist>>
    /\ sessHist' = SessionHistory(1)

LockRequest(r) == get_connected_ib_client(r)

LockSummary(r) == account_endpoint(r)

LockStatus(r) ==
    /\ \/ get_connection_status_connected(r)
       \/ get_connection_status_return(r)
    /\ UNCHANGED <<historyVars, serviceVars>>

NextLock ==
    \/ LockTake
    \/ LockCallback
    \/ LockSession
    \/ StatusStop
    \/ LockRequest("r1")
    \/ LockSummary("r1")
    \/ LockStatus("r2")

\* Every thread keeps running, and a thread that asks for the lock gets it
\* if the lock is free again and again: a callback that has begun goes on,
\* and so does each reader from its request to its return.
SpecLock ==
    /\ InitLock
    /\ [][NextLock]_vars
    /\ SF_vars(LockCallback)
    /\ SF_vars(LockSummary("r1"))
    /\ SF_vars(LockStatus("r2"))

\* ------------------------------------------------- properties of positions

SameIdentity(p, q) == p.symbol = q.symbol /\ p.secType = q.secType

\* C1: the cached position list never holds two entries with the same
\* (symbol, secType), whatever their exchange and currency.
C1_OnePositionPerIdentity ==
    \A i, j \in 1..Len(positions) :
        SameIdentity(positions[i], positions[j]) => i = j

\* C1 witness: an update on another listing (exchange and currency) of an
\* identity already cached has been applied to a list of several positions.
C1_Witness ==
    /\ lastApplied.msg.kind = "updatePortfolio"
    /\ lastApplied.msg.position # 0
    /\ Len(positions) >= 2
    /\ \E i \in 1..Len(lastApplied.before) :
        /\ SameIdentity(lastApplied.before[i], lastApplied.msg.contract)
        /\ lastApplied.before[i].exchange # lastApplied.msg.contract.exchange
        /\ lastApplied.before[i].currency # lastApplied.msg.contract.currency

\* The entry an update m is to leave in the list.
EntryOf(m) ==
    [symbol |-> m.contract.symbol, secType |-> m.contract.secType,
     exchange |-> m.contract.exchange, currency |-> m.contract.currency,
     position |-> m.position, marketPrice |-> m.marketPrice,
     marketValue |-> m.marketValue, averageCost |-> m.averageCost,
     unrealizedPNL |-> m.unrealizedPNL, realizedPNL |-> m.realizedPNL]

\* C2: a non-zero update of a cached identity replaces that entry at its index
\* with the update's fields and leaves the length and all other entries; a
\* non-zero update of an identity not cached appends it and leaves the rest.
C2_UpsertInPlace ==
    LET m == lastApplied.msg
        b == lastApplied.before
    IN  (m.kind = "updatePortfolio" /\ m.position # 0) =>
            IF \E i \in 1..Len(b) : SameIdentity(b[i], m.contract)
            THEN /\ Len(positions) = Len(b)
                 /\ \A i \in 1..Len(b) :
                        positions[i] = IF SameIdentity(b[i], m.contract)
                                       THEN EntryOf(m) ELSE b[i]
            ELSE /\ Len(positions) = Len(b) + 1
                 /\ positions[Len(b) + 1] = EntryOf(m)
                 /\ \A i \in 1..Len(b) : positions[i] = b[i]

\* C2 witness: an entry that was not the last of the list has been replaced
\* by an update that differs from it.
C2_Witness ==
    LET m == lastApplied.msg
        b == lastApplied.before
    IN  /\ m.kind = "updatePortfolio"
        /\ m.position # 0
        /\ \E i \in 1..(Len(b) - 1) :
            SameIdentity(b[i], m.contract) /\ b[i] # EntryOf(m)

\* C3: a zero-quantity update of an identity not cached leaves the list as it
\* was; of a cached one it removes that entry and keeps the others in order;
\* and no entry of quantity 0 is ever stored.
C3_ZeroRemoves ==
    LET m == lastApplied.msg
        b == lastApplied.before
    IN  /\ \A i \in 1..Len(positions) : positions[i].position # 0
        /\ (m.kind = "updatePortfolio" /\ m.position = 0) =>
            IF \E k \in 1..Len(b) : SameIdentity(b[k], m.contract)
            THEN \E k \in 1..Len(b) :
                    /\ SameIdentity(b[k], m.contract)
                    /\ positions = SubSeq(b, 1, k - 1) \o SubSeq(b, k + 1, Len(b))
            ELSE positions = b

\* C3 witness: a zero-quantity update has removed an entry from the middle
\* of a list of three.
C3_Witness ==
    LET m == lastApplied.msg
        b == lastApplied.before
    IN  /\ m.kind = "updatePortfolio"
        /\ m.position = 0
        /\ Len(b) = 3
        /\ SameIdentity(b[2], m.contract)
        /\ Len(positions) = 2

\* ---------------------------------------------- properties of the summary

\* C6: for each of the eight headline metrics a returned summary reports the
\* "USD" entry if the metric has one, else the "BASE" entry if it has one,
\* else the first entry with a non-empty currency; a metric that is absent
\* or has only entries with an empty currency is omitted.
C6_SummaryPreference ==
    \A r \in Readers :
        rres[r].status = "ok" =>
            LET av == rsnap[r].cache.account_values
                s == rres[r].summary
            IN  /\ DOMAIN s \subseteq Range(KeyMetrics)
                /\ \A k \in Range(KeyMetrics) :
                    LET d == IF k \in DOMAIN av THEN av[k] ELSE <<>>
                        usd == {i \in 1..Len(d) : d[i][1] = "USD"}
                        base == {i \in 1..Len(d) : d[i][1] = "BASE"}
                        named == {i \in 1..Len(d) : d[i][1] # ""}
                    IN  IF usd # {}
                        THEN /\ k \in DOMAIN s
                             /\ \E i \in usd :
                                 s[k] = [value |-> d[i][2], currency |-> "USD"]
                        ELSE IF base # {}
                        THEN /\ k \in DOMAIN s
                             /\ \E i \in base :
                                 s[k] = [value |-> d[i][2], currency |-> "BASE"]
                        ELSE IF named # {}
                        THEN /\ k \in DOMAIN s
                             /\ \E i \in named :
                                 /\ \A j \in named : i <= j
                                 /\ s[k] = [value |-> d[i][2], currency |-> d[i][1]]
                        ELSE k \notin DOMAIN s

\* C6 witness: a summary was returned for a cache in which one metric has an
\* empty-currency entry first and then two other currencies, neither USD nor
\* BASE, and another metric has only an empty-currency entry.
C6_Witness ==
    \E r \in Readers :
        /\ rres[r].status = "ok"
        /\ "NetLiquidation" \in DOMAIN rsnap[r].cache.account_values
        /\ "RealizedPnL" \in DOMAIN rsnap[r].cache.account_values
        /\ rsnap[r].cache.account_values["NetLiquidation"] =
               <<(<<"", "0.00">>), <<"GBP", "0">>, <<"EUR", "100.50">>>>
        /\ rsnap[r].cache.account_values["RealizedPnL"] = <<(<<"", "100">>)>>
        /\ DOMAIN rres[r].summary = {"NetLiquidation"}

\* ------------------------------- properties of concurrent callbacks and reads

\* C4: every result of get_account_summary has its account id, last-update
\* time, summary, cash balances and positions all equal to the cache at one
\* instant at which no callback was partly applied.
C4_AtomicSnapshot ==
    \A r \in Readers :
        rres[r].status = "ok" =>
            /\ ~rsnap[r].inCallback
            /\ rres[r].account_id = rsnap[r].cache.account_name
            /\ rres[r].last_update = rsnap[r].cache.account_time
            /\ rres[r].summary = Summary(rsnap[r].cache.account_values)
            /\ rres[r].cash_balances = CashBalances(rsnap[r].cache.account_values)
            /\ rres[r].positions = rsnap[r].cache.positions

\* C4 witness: a result was returned although the cache has changed in two
\* fields since the reader took the lock.
C4_Witness ==
    \E r \in Readers :
        /\ rres[r].status = "ok"
        /\ rres[r].account_id = "DU1"
        /\ rres[r].summary # <<>>
        /\ account_name # rres[r].account_id
        /\ account_values # rsnap[r].cache.account_values

\* The fold of the specification: values as a map from (metric, currency),
\* the active account, the positions, the time.
RefInit == [values |-> <<>>, account |-> "", positions |-> <<>>, time |-> ""]

RefApply(c, m) ==
    CASE m.kind = "updateAccountValue" ->
            [c EXCEPT !.account = m.accountName,
                      !.values = [kc \in DOMAIN c.values \cup {<<m.key, m.currency>>} |->
                                    IF kc = <<m.key, m.currency>> THEN m.val
                                    ELSE c.values[kc]]]
      [] m.kind = "updateAccountTime" -> [c EXCEPT !.time = m.timeStamp]
      [] m.kind = "updatePortfolio" ->
            LET same(p) == p.symbol = m.contract.symbol /\ p.secType = m.contract.secType
                keep == {i \in 1..Len(c.positions) : ~same(c.positions[i])}
                others == SelectSeq(c.positions, LAMBDA p : ~same(p))
            IN  IF m.position = 0
                THEN [c EXCEPT !.positions = others]
                ELSE IF Cardinality(keep) = Len(c.positions)
                THEN [c EXCEPT !.positions = c.positions \o <<EntryOf(m)>>]
                ELSE [c EXCEPT !.positions =
                        [i \in 1..Len(c.positions) |->
                            IF i \in keep THEN c.positions[i] ELSE EntryOf(m)]]

RECURSIVE RefFold(_)
RefFold(events) ==
    IF events = <<>> THEN RefInit
    ELSE RefApply(RefFold(SubSeq(events, 1, Len(events) - 1)), events[Len(events)])

\* The cache read as the map and fields of the specification.
CacheAsRef ==
    LET keys == UNION {{<<k, account_values[k][i][1]>> :
                            i \in 1..Len(account_values[k])} :
                        k \in DOMAIN account_values}
    IN  [values |-> [kc \in keys |-> Lookup(account_values[kc[1]], kc[2])],
         account |-> account_name, positions |-> positions, time |-> account_time]

\* Does a returned result show the values, positions, account and time of
\* the reference cache c?
ResultShows(res, c) ==
    /\ res.account_id = c.account
    /\ res.last_update = c.time
    /\ res.positions = c.positions
    /\ \A k \in DOMAIN res.summary :
        /\ <<k, res.summary[k].currency>> \in DOMAIN c.values
        /\ c.values[<<k, res.summary[k].currency>>] = res.summary[k].value
    /\ \A kc \in DOMAIN c.values :
        (kc[1] \in Range(KeyMetrics) /\ kc[2] # "") => kc[1] \in DOMAIN res.summary
    /\ \A cur \in DOMAIN res.cash_balances :
        /\ <<"CashBalance", cur>> \in DOMAIN c.values
        /\ c.values[<<"CashBalance", cur>>] = res.cash_balances[cur]

\* C5: the cache after n callbacks is the sequential fold of the first n
\* events in the order the worker delivered them, no delivered event is
\* skipped, and the second of two successive reads of a reader never shows
\* an earlier prefix of the events than the first.
C5_OrderedFold ==
    /\ nApplied <= Len(delivered)
    /\ (\A w \in WorkerIds : wpc[w] \in {"unborn", "run", "dead"}) =>
            nApplied = Len(delivered)
    /\ ~InCallback => CacheAsRef = RefFold(SubSeq(delivered, 1, nApplied))
    /\ \A r \in Readers :
        rres[r].status = "ok" =>
            /\ rseen[r][1] <= rseen[r][2]
            /\ ResultShows(rres[r], RefFold(SubSeq(delivered, 1, rseen[r][2])))

\* C5 witness: a reader has read after one callback and again after three,
\* the last two being a value of another currency and a closed position.
C5_Witness ==
    \E r \in Readers :
        /\ rres[r].status = "ok"
        /\ rseen[r] = <<1, 3>>
        /\ Len(delivered) = 3
        /\ delivered[1].kind = "updatePortfolio"
        /\ delivered[2].kind = "updateAccountValue"
        /\ delivered[3].kind = "updatePortfolio"
        /\ delivered[3].position = 0

\* ------------------------------------------------ properties of start, stop

\* The caller is between calls and its last call was op.
LastCall(op) == cpc = "idle" /\ callHist.last.op = op

\* The stop() of the last call met no fault: no command to the gateway raised
\* and the worker thread had ended when join returned.
CleanStop == "raised" \notin callHist.cmds /\ ~callHist.joinTimedOut

\* C7: a start() whose wait for the acknowledgement timed out returns False
\* and leaves no worker reference, both flags clear and the session
\* disconnected, having issued no subscribe command. (Stated for the calls in
\* which no command to the gateway raised and the join did not time out.)
C7_TimeoutLeavesIdle ==
    (LastCall("start") /\ callHist.timedOut /\ CleanStop) =>
        /\ callHist.last.result = "False"
        /\ callHist.last.left.thread = None
        /\ ~callHist.last.left.connected
        /\ ~callHist.last.left.account_ready
        /\ ~callHist.last.left.sessionLive
        /\ "subscribe" \notin callHist.cmds

\* C8: start() called while self._thread is a live worker returns True and
\* changes nothing: no command to the gateway, no thread, no flag, no field.
C8_StartWhileRunningIsNoOp ==
    [][(/\ cpc = "idle"
        /\ thread # None
        /\ wpc[thread] \notin {"unborn", "dead"}
        /\ \/ cpc' = "start_connect"
           \/ cpc' = "idle" /\ callHist' # callHist /\ callHist'.last.op = "start")
       => /\ cpc' = "idle"
          /\ callHist'.last.result = "True"
          /\ callHist'.cmds = {}
          /\ UNCHANGED <<clientVars, sessionVars, workerVars>>]_vars

\* C8 witness: start() has returned True without a command while the worker
\* of an acknowledged, subscribed session was running.
C8_Witness ==
    /\ LastCall("start")
    /\ callHist.running
    /\ callHist.cmds = {}
    /\ callHist.last.result = "True"
    /\ connected /\ subscribed /\ thread # None

\* C9 as claimed: the second of two start() calls with no stop() by the caller
\* between them returns what the first returned and issues no connect.
C9_StartTwiceSameResult ==
    (LastCall("start") /\ callHist.before.op = "start") =>
        /\ callHist.last.result = callHist.before.result
        /\ "connect" \notin callHist.cmds

\* C9 amended: the second of two start() calls with no stop() by the caller
\* between them returns True without any command if self._thread is a live
\* worker when it is called, and otherwise issues the connect command again.
C9_StartTwiceReconnectsUnlessRunning ==
    (LastCall("start") /\ callHist.before.op = "start") =>
        IF callHist.running
        THEN callHist.last.result = "True" /\ callHist.cmds = {}
        ELSE "connect" \in callHist.cmds

\* C9 witness: after a start() that returned True, a second start() found the
\* worker running and returned True.
C9_Witness ==
    /\ LastCall("start")
    /\ callHist.before = [op |-> "start", result |-> "True"]
    /\ callHist.running
    /\ callHist.last.result = "True"

\* C10: whenever stop() returns it has not raised and has left no worker
\* reference and both flags clear, and a stop() that follows a stop() leaves
\* the supervisor as the first one left it. (Stated for the calls made while
\* the worker was running, in which no command to the gateway raised and the
\* join did not time out.)
C10_StopLeavesIdle ==
    (LastCall("stop") /\ callHist.running /\ CleanStop) =>
        /\ callHist.last.result = "returned"
        /\ callHist.last.left.thread = None
        /\ ~callHist.last.left.connected
        /\ ~callHist.last.left.account_ready
        /\ callHist.before.op = "stop" => callHist.last.same

\* C11: a stop() in which the unsubscribe or the disconnect command raised
\* still returns normally and leaves no worker reference and both flags
\* clear. (Stated for the calls of stop() by the caller.)
C11_StopResetsDespiteRaise ==
    (LastCall("stop") /\ "raised" \in callHist.cmds) =>
        /\ callHist.last.result = "returned"
        /\ callHist.last.left.thread = None
        /\ ~callHist.last.left.connected
        /\ ~callHist.last.left.account_ready

\* C17: start() returns True or False to its caller, whatever the connect and
\* the subscribe command do; it never raises.
C17_StartNeverRaises ==
    LastCall("start") => callHist.last.result \in {"True", "False"}

\* C12: whenever is_connected() would return True, the session reports itself
\* connected and the connection stands acknowledged: a nextValidId callback
\* has set the event, and since then no connectionClosed callback has run and
\* no stop() has returned. (Stated for the states in which the last call
\* left the session disconnected and no command has raised since.)
C12_ConnectedOnlyIfAcknowledged ==
    (is_connected /\ ~callHist.last.left.sessionLive /\ "raised" \notin callHist.cmds)
        => (sessionLive /\ sessHist.acked)

\* ------------------------------------------- properties of the error callback

\* C13: after an error callback whose code is 2104, 2106, 2107 or 2158 the
\* last error is what it was before the callback; after one with any other
\* code it is a message that contains the code and the text of the callback.
C13_ErrorClassification ==
    lastApplied.msg.kind = "error" =>
        IF lastApplied.msg.errorCode \in {2104, 2106, 2107, 2158}
        THEN last_error = lastApplied.before
        ELSE /\ last_error # NoError
             /\ ToString(lastApplied.msg.errorCode) \in Range(last_error)
             /\ lastApplied.msg.errorString \in Range(last_error)

\* C13 witness: the notice 2107 has been handled after the error 502 was
\* recorded, and the last error is still that of 502.
C13_Witness ==
    /\ lastApplied.msg.kind = "error"
    /\ lastApplied.msg.errorCode = 2107
    /\ lastApplied.before = ErrorText(502, "Couldn't connect to TWS")
    /\ last_error = ErrorText(502, "Couldn't connect to TWS")
    /\ wpc[1] = "run"

\* ------------------------------------------------- properties of a restart

\* C14: when a start() that connected has returned True and no operational
\* error has been recorded since that start() began, get_connection_status
\* reports no last error.
C14_LastErrorClearedOnConnect ==
    (FreshlyStarted /\ ~sessHist.errored) =>
        get_connection_status.last_error = NoError

\* C15: a get_account_summary called after a start() that connected has
\* returned True, before any account data of the new session is stored,
\* returns no account id, no update time, no summary value and no position.
C15_NoDataOfEarlierSession ==
    \A r \in Readers :
        (rres[r].status = "ok" /\ rsnap[r].fresh) =>
            /\ rres[r].account_id = ""
            /\ rres[r].last_update = ""
            /\ DOMAIN rres[r].summary = {}
            /\ rres[r].positions = <<>>

\* -------------------------------------------- properties of the cash balances

\* C16: every get_account_summary that has returned to its caller returned
\* a result (it did not raise), and the reader no longer holds the lock.
C16_SummaryNeverRaises ==
    \A r \in Readers :
        (rpc[r] = "idle" /\ rres[r] # NoResult) =>
            /\ rres[r].status = "ok"
            /\ lock # ReaderThread(r)

\* ------------------------------------------ properties of the HTTP endpoints

\* C18: a /health response is 200 "healthy" exactly when the handler found
\* the client initialised and read connected and account-ready both true; it
\* is 503 "degraded" when it read connected true and account-ready false, and
\* 503 "unhealthy" when it read connected false or found no client.
C18_HealthMapping ==
    hres.response.code # 0 =>
        LET up == hres.read.initialized /\ hres.read.connected
            resp == hres.response
        IN  /\ (resp.code = 200 /\ resp.status = "healthy")
                    <=> (up /\ hres.read.account_ready)
            /\ (up /\ ~hres.read.account_ready)
                    => (resp.code = 503 /\ resp.status = "degraded")
            /\ ~up => (resp.code = 503 /\ resp.status = "unhealthy")
            /\ resp.code \in {200, 503}

\* C18 witness: the probe has answered 503 "degraded" for an initialised
\* client that is connected and has not had the end of the download.
C18_Witness ==
    /\ hres.response.code = 503
    /\ hres.response.status = "degraded"
    /\ hres.read.initialized /\ hres.read.connected /\ ~hres.read.account_ready

\* C19: the last_error of a /health response is absent or is the opaque
\* reference of the except branch.
C19_HealthHidesErrorDetail ==
    hres.response.code # 0 =>
        hres.response.last_error \in {NoError, HealthFailure.last_error}

\* C20: a step of the dependency of the account endpoints taken while the
\* global client is not set or is_connected() is false answers 503 and does
\* not enter the endpoint: get_account_summary is not called, the lock and
\* the reader's last result stay as they are.
C20_NotConnectedIs503 ==
    [][\A r \in Readers :
        (/\ rpc[r] = "idle"
         /\ ~client \/ ~is_connected
         /\ rpc'[r] # rpc[r] \/ ares'[r] # ares[r])
        => /\ ares'[r].code = 503
           /\ rpc'[r] = "idle"
           /\ UNCHANGED <<lock, rres, rtmp>>]_vars

\* C20 witness: an account request was answered 503 for an initialised
\* client that is not connected, after one that was answered 200.
C20_Witness ==
    \E r \in Readers :
        /\ ares[r].code = 503
        /\ ares[r].detail = "Not connected to IB Gateway"
        /\ rpc[r] = "idle"
        /\ rres[r].status = "ok"
        /\ client /\ ~is_connected

\* ------------------------------------------- properties of the state machine

\* C21: while the supervisor is Idle the connected flag is not set: before the
\* first start(), and after a stop() that followed a successful start() has
\* returned. (Stated for a stop() in which no command raised and whose join
\* did not time out.)
C21_NotConnectedWhileIdle ==
    /\ (cpc = "idle" /\ callHist.last.op = "none") => ~connected
    /\ (/\ LastCall("stop")
        /\ callHist.before = [op |-> "start", result |-> "True"]
        /\ CleanStop) => ~connected

\* C22: no two worker threads are alive at once.
C22_OneWorkerAlive ==
    Cardinality({w \in WorkerIds : Alive(w)}) <= 1

\* The commands of a start() that has returned: success of a call that found
\* no worker running has issued subscribe, failure and success of a call that
\* found the worker running have issued none.
SubscribeOnSuccessOnly ==
    LastCall("start") =>
        /\ (callHist.last.result = "True" /\ ~callHist.running)
                => "subscribe" \in callHist.cmds
        /\ (callHist.last.result = "True" /\ callHist.running)
                => "subscribe" \notin callHist.cmds
        /\ callHist.last.result = "False" => "subscribe" \notin callHist.cmds

\* The step of start() that issues subscribe is taken only when the
\* acknowledgement of the connection this start() made has been delivered to
\* the worker. (Stated for a start() that follows a call which left no
\* worker reference and no session, with no earlier worker alive.)
SubscribeAfterAcknowledgement ==
    (/\ cpc = "start_subscribe" /\ cpc' = "idle"
     /\ callHist.last.left.thread = None
     /\ ~callHist.last.left.sessionLive
     /\ \A w \in WorkerIds \ {thread} : ~Alive(w)) => ~ackPending

\* C23: a start() that returns success has issued subscribe, and only after
\* the acknowledgement was received; a start() that fails and a start() that
\* finds the worker running issue no subscribe.
C23_SubscribeAfterAcknowledgement ==
    /\ []SubscribeOnSuccessOnly
    /\ [][SubscribeAfterAcknowledgement]_vars

C25_StatusAtOneInstant ==
    \A r \in Readers :
        rres[r].status = "status" => (rres[r].connected => rres[r].account_ready)

\* The client itself is at no instant of the session connected and not ready.
NeverConnectedNotReady == is_connected => account_ready

\* What the holder of the last result of reader r finds in it now: an entry
\* that is an object of the cache shows what the cache holds now, the others
\* what they held when the call returned.
ResultNow(r) ==
    IF rres[r].status = "ok" /\ "positions" \in rres[r].shared
    THEN [rres[r] EXCEPT !.positions = positions]
    ELSE rres[r]

ValueAt(av, key, currency) ==
    IF key \in DOMAIN av /\ HasKey(av[key], currency)
    THEN <<Lookup(av[key], currency)>>
    ELSE <<>>

\* The (key, currency) pairs that av has an entry for.
EntriesOf(av) ==
    UNION {{<<k, e[1]>> : e \in Range(av[k])} : k \in DOMAIN av}

\* C27: updateAccountValue sets the entry (key, currency) to val as given,
\* whatever was there, and the active account id to accountName; it leaves
\* every other entry, the positions, the last-update time, the last error
\* and the two flags as they were.
C27_ValueStoredAlone ==
    [][\A w \in WorkerIds :
          (/\ wpc[w] \in {"updateAccountValue", "updateAccountValue_store"}
           /\ wpc'[w] # wpc[w]) =>
              LET m == wmsg[w]
                  done == wpc'[w] = "run"
                  av == account_values
              IN  /\ account_name' = m.accountName
                  /\ done => ValueAt(av', m.key, m.currency) = <<m.val>>
                  /\ ~done => av' = av
                  /\ \A kc \in (EntriesOf(av) \cup EntriesOf(av'))
                                    \ {<<m.key, m.currency>>} :
                        ValueAt(av', kc[1], kc[2]) = ValueAt(av, kc[1], kc[2])
                  /\ UNCHANGED <<positions, account_time, last_error,
                                 connected, account_ready>>]_vars

\* C27 witness: the value of NetLiquidation in USD has been overwritten by
\* the one delivered last, under another account name, beside an entry for
\* another currency, another metric, a position, a time and an error.
C27_Witness ==
    /\ wpc[1] = "run"
    /\ ValueAt(account_values, "NetLiquidation", "USD") = <<"50">>
    /\ ValueAt(account_values, "NetLiquidation", "BASE") = <<"50">>
    /\ ValueAt(account_values, "CashBalance", "USD") = <<"50">>
    /\ account_values["NetLiquidation"][1][1] = "BASE"
    /\ account_name = "DU2"
    /\ positions # <<>>
    /\ account_time = "10:00"
    /\ last_error # NoError
    /\ account_ready

\* C28: the account-ready flag is set by accountDownloadEnd alone, which
\* changes nothing else; it is cleared by connectionClosed and by stop()
\* alone; no value, position, time or error callback changes it.
C28_ReadyFlagIndependent ==
    [][/\ (~account_ready /\ account_ready')
            => \E w \in WorkerIds :
                    wpc[w] = "accountDownloadEnd" /\ wpc'[w] = "run"
       /\ (account_ready /\ ~account_ready')
            => \/ cpc = "stop_clear_ready" /\ cpc' = "stop_join"
               \/ \E w \in WorkerIds :
                    wpc[w] = "connectionClosed_ready" /\ wpc'[w] = "run"
       /\ \A w \in WorkerIds :
            (wpc[w] = "accountDownloadEnd" /\ wpc'[w] # wpc[w])
                => /\ account_ready'
                   /\ UNCHANGED <<account_values, positions, account_name,
                                  account_time, last_error, connected,
                                  next_order_id, lock>>
       /\ \A w \in WorkerIds :
            (/\ wpc[w] \in {"updateAccountValue", "updateAccountValue_store",
                            "updatePortfolio", "updateAccountTime", "error"}
             /\ wpc'[w] # wpc[w]) => UNCHANGED account_ready]_vars

\* C28 witness: the flag is set, after callbacks of every other kind have
\* stored a value, a position, a time and an error.
C28_Witness ==
    /\ account_ready
    /\ wpc[1] = "run"
    /\ sessionLive
    /\ DOMAIN account_values # {}
    /\ positions # <<>>
    /\ account_time # ""
    /\ last_error # NoError
    /\ account_name = "DU1"

\* C29: an error callback, whatever its code, returns to the message loop
\* with the session as it was: the two flags, the connection, the worker
\* reference and the account data are unchanged, and the worker takes the
\* next callback.
C29_ErrorLeavesSessionRunning ==
    [][\A w \in WorkerIds :
          (wpc[w] = "error" /\ wpc'[w] # wpc[w]) =>
              /\ wpc'[w] = "run"
              /\ UNCHANGED <<connected, account_ready, sessionLive, subscribed,
                             thread, account_values, positions, account_name,
                             account_time, next_order_id>>]_vars

\* C29 witness: the worker has recorded the error 1100 and has since taken
\* an account value, which it is storing, in a session still connected.
C29_Witness ==
    /\ sessHist.errored
    /\ last_error = ErrorText(1100, "Connectivity between IB and TWS has been lost")
    /\ wpc[1] = "updateAccountValue_store"
    /\ is_connected
    /\ account_time = "10:00"

\* C30: the cash_balances of a result hold exactly the CashBalance entries
\* cached when the call took the lock whose currency is not empty and whose
\* value is a number other than zero, each with the value string as
\* delivered; they are empty when no CashBalance is cached.
C30_CashBalancesExact ==
    \A r \in Readers :
        rres[r].status = "ok" =>
            LET av == rsnap[r].cache.account_values
                cash == rres[r].cash_balances
                cached == {kc[2] : kc \in {e \in EntriesOf(av) : e[1] = "CashBalance"}}
            IN  /\ \A c \in cached \cup DOMAIN cash :
                      c \in DOMAIN cash <=>
                          /\ c # ""
                          /\ c \in cached
                          /\ FloatOfStr(Lookup(av["CashBalance"], c)) # 0
                /\ \A c \in DOMAIN cash :
                      <<cash[c]>> = ValueAt(av, "CashBalance", c)
                /\ "CashBalance" \notin DOMAIN av => DOMAIN cash = {}

\* C30 witness: a result whose cash balances are the USD balance alone, as
\* delivered, taken from a cache that also held a EUR balance of "0.00" and
\* an entry with the empty currency.
C30_Witness ==
    \E r \in Readers :
        /\ rres[r].status = "ok"
        /\ rpc[r] = "idle"
        /\ DOMAIN rres[r].cash_balances = {"USD"}
        /\ rres[r].cash_balances["USD"] = "50"
        /\ ValueAt(rsnap[r].cache.account_values, "CashBalance", "EUR") = <<"0.00">>
        /\ ValueAt(rsnap[r].cache.account_values, "CashBalance", "") # <<>>

\* --------------------------------------- properties of the acknowledgement

\* C31: when a start() that connected has returned True, the acknowledgement
\* of the connection it made has been delivered to the worker: the gateway
\* is not still to send it.
C31_SuccessIsAcknowledged ==
    (/\ LastCall("start")
     /\ callHist.last.result = "True"
     /\ "connect" \in callHist.cmds) => ~ackPending

\* ------------------------------------- properties of the account endpoints

\* C33: a 200 response of /account/balance carries connected = true, the
\* flag get_account_summary read being the one the dependency
\* get_connected_ib_client had checked.
C33_BalanceSaysConnected ==
    \A r \in Readers :
        (rpc[r] = "idle" /\ ares[r].code = HTTP_200_OK /\ rres[r].status = "ok")
            => rres[r].connected

\* --------------------------------------------------- properties of the lock

\* A thread is asking for the lock: a handler that has passed the dependency
\* and calls get_account_summary, the worker in a callback that has not yet
\* entered its with block.
ReaderAsks(r) == rpc[r] = "endpoint"
WorkerAsks(w) == wpc[w] = "updateAccountValue"

====
